---- MODULE Spec2Model ----
(***************************************************************************)
(* Model of atom/organic_scoring/organic_scoring_base.py:                  *)
(* OrganicScoringBase, the backlog-aware scheduler.  One scheduler object, *)
(* its scheduling loop (start_loop), the external step-control surface     *)
(* (increment_step, set_step), the admission path (_on_organic_entry) and  *)
(* the annealing rate (sample_rate_dynamic).                               *)
(*                                                                         *)
(* Numbers that Python holds as float are exact rationals <<n, d>> with    *)
(* d > 0 in lowest terms; int() is truncation toward zero.                 *)
(***************************************************************************)
EXTENDS Integers, Sequences, FiniteSets, TLC

\* ------------------------------------------------------------- bounds
\* Scheduling specification (Spec, FairSpec).
MaxHalves == 2
MaxScale == 2
MaxQueue == 1
MaxSteps == 2
MaxDrain == 2
\* Rate specification (RateSpec): wide enough for the documented examples.
MaxRateFreq == 10
MaxRateMin == 3
MaxRateScale == 5
MaxRateQueue == 40

VARIABLES
    phase,                   \* "new" | "constructed" | "failed": outcome of __init__
    trigger,                 \* self._trigger
    trigger_frequency,       \* self._trigger_frequency (rational)
    trigger_min,             \* self._trigger_min (rational)
    trigger_scaling_factor,  \* self._trigger_scaling_factor (rational)
    attached,                \* hooks registered by self._axon.attach(...)
    overridden,              \* optional hooks the concrete subclass defines
    queue_size,              \* self._organic_queue.size
    step_counter,            \* self._step_counter
    step_lock,               \* self._step_lock: "free" or the holder
    should_exit,             \* self._should_exit
    is_running,              \* self._is_running
    pc,                      \* position of the start_loop coroutine
    logs,                    \* telemetry returned by the last forward()
    dynamic_unit,            \* last value returned by sample_rate_dynamic()
    sleep_duration,          \* wait_until_next's sleep_duration ("seconds")
    drained,                 \* subtractions done by the current wait_until_next
    outcome,                 \* how the last forward() ended: "returned", "raised"
                             \* (an Exception, caught) or "propagated" (not caught)
    last_call                \* the last external call and how it ended

vars == <<phase, trigger, trigger_frequency, trigger_min, trigger_scaling_factor,
          attached, overridden, queue_size, step_counter, step_lock, should_exit,
          is_running, pc, logs, dynamic_unit, sleep_duration, drained, outcome, last_call>>

config == <<trigger, trigger_frequency, trigger_min, trigger_scaling_factor>>

\* ------------------------------------------------------------- rationals
Abs(n) == IF n < 0 THEN -n ELSE n

RECURSIVE GCD(_, _)
GCD(a, b) == IF b = 0 THEN a ELSE GCD(b, a % b)

\* A pair <<n, d>> with d > 0 divided through by its greatest common divisor.
Reduce(p) ==
    LET g == GCD(Abs(p[1]), p[2])
    IN  <<p[1] \div g, p[2] \div g>>

\* n/d in lowest terms with a positive denominator (d # 0).  The pair is bound
\* as a value before it is reduced, so that nested terms are evaluated once.
Rat(n, d) ==
    CHOOSE r \in {Reduce(p) : p \in {IF d < 0 THEN <<-n, -d>> ELSE <<n, d>>}} : TRUE

FromInt(k) == <<k, 1>>
RatLeq(a, b) == a[1] * b[2] <= b[1] * a[2]
RatLt(a, b) == a[1] * b[2] < b[1] * a[2]
RatSub(a, b) == Rat(a[1] * b[2] - b[1] * a[2], a[2] * b[2])
RatDiv(a, b) == Rat(a[1] * b[2], a[2] * b[1])
RatMax(a, b) == IF RatLt(a, b) THEN b ELSE a
Zero == FromInt(0)

\* Python int(x) on a float: truncation toward zero.
int(x) == IF x[1] >= 0 THEN x[1] \div x[2] ELSE -((-x[1]) \div x[2])

\* ------------------------------------------------------------- inputs
Triggers == {"seconds", "steps"}
\* trigger_frequency and trigger_frequency_min are Union[float, int]: halves.
\* The constructor checks neither, so a frequency of 0 is accepted.  The
\* minimum is kept at 0 or above here, which keeps dynamic_unit >= 0 and the
\* loop's subtraction from growing step_counter without end; negative minima
\* are inputs of the rate specification.
Frequencies == {Rat(n, 2) : n \in 0..MaxHalves}
MinFrequencies == Frequencies
\* trigger_scaling_factor: a negative one, zero, one and the largest.
ScalingFactors == {FromInt(-1), Zero, FromInt(1), FromInt(MaxScale)}
OptionalHooks == {"blacklist_fn", "priority_fn", "verify_fn"}
\* The subclass overrides any subset of the three optional hooks.
OverrideChoices == SUBSET OptionalHooks
StepValues == {-1, MaxSteps}
\* total_elapsed_time reported by forward(): half a second.
ElapsedValues == {Rat(1, 2)}
NoLogs == [has_key |-> FALSE, total_elapsed_time |-> Zero]
NoCall == [op |-> "none", arg |-> 0, result |-> "none"]

\* ------------------------------------------------------------- pure code
\* Mutants of sample_rate_dynamic: min() for max(); the backlog term added
\* instead of subtracted; floor division for true division.
RatMin(a, b) == IF RatLt(a, b) THEN a ELSE b
RatAdd(a, b) == Rat(a[1] * b[2] + b[1] * a[2], a[2] * b[2])

sample_rate_min(trig, freq, tmin, factor, size) ==
    LET delay == RatMin(RatSub(freq, RatDiv(FromInt(size), factor)), tmin)
    IN  IF trig = "seconds" THEN delay ELSE FromInt(int(delay))

sample_rate_added(trig, freq, tmin, factor, size) ==
    LET delay == RatMax(RatAdd(freq, RatDiv(FromInt(size), factor)), tmin)
    IN  IF trig = "seconds" THEN delay ELSE FromInt(int(delay))

sample_rate_floordiv(trig, freq, tmin, factor, size) ==
    LET whole == FromInt((size * factor[2]) \div factor[1])
        delay == RatMax(RatSub(freq, whole), tmin)
    IN  IF trig = "seconds" THEN delay ELSE FromInt(int(delay))

\* sample_rate_dynamic(): max(frequency - size / scaling_factor, min),
\* returned as is for "seconds" and through int() otherwise.
sample_rate_dynamic(trig, freq, tmin, factor, size) ==
    LET delay == RatMax(RatSub(freq, RatDiv(FromInt(size), factor)), tmin)
    IN  IF trig = "seconds" THEN delay ELSE FromInt(int(delay))

\* logs.get("total_elapsed_time", 0)
total_elapsed_time(l) == IF l.has_key THEN l.total_elapsed_time ELSE Zero

\* self._step_lock = asyncio.Lock()
step_lock_type == "asyncio.Lock"

\* `with lock:` needs the synchronous context-manager protocol, which
\* asyncio.Lock does not have (TypeError; RuntimeError or AttributeError on
\* older interpreters): the with-statement raises before its body runs.
supports_with(lock_type) == lock_type = "threading.Lock"

\* ------------------------------------------------------------- construction
Init ==
    /\ phase = "new"
    /\ trigger = "unset"
    /\ trigger_frequency = Zero
    /\ trigger_min = Zero
    /\ trigger_scaling_factor = Zero
    /\ attached = {}
    /\ overridden = {}
    /\ queue_size = 0
    /\ step_counter = 0
    /\ step_lock = "free"
    /\ should_exit = FALSE
    /\ is_running = FALSE
    /\ pc = "notstarted"
    /\ logs = NoLogs
    /\ dynamic_unit = Zero
    /\ sleep_duration = Zero
    /\ drained = 0
    /\ outcome = "none"
    /\ last_call = NoCall

\* is_overridden(method): the concrete subclass defines the method itself
\* instead of inheriting OrganicScoringBase's default.
is_overridden(hook, subclass) == hook \in subclass

\* Mutant of construct: the scaling factor is not checked.
construct_unchecked ==
    /\ phase = "new"
    /\ \E trig \in Triggers, freq \in Frequencies, tmin \in MinFrequencies,
          factor \in ScalingFactors, subclass \in OverrideChoices :
        /\ trigger' = trig
        /\ trigger_frequency' = freq
        /\ trigger_min' = tmin
        /\ trigger_scaling_factor' = factor
        /\ overridden' = subclass
        /\ phase' = "constructed"
        /\ attached' = {"forward_fn"}
                         \cup {h \in OptionalHooks : is_overridden(h, subclass)}
    /\ UNCHANGED <<queue_size, step_counter, step_lock, should_exit, is_running,
                   pc, logs, dynamic_unit, sleep_duration, drained, last_call, outcome>>

\* Mutant of construct: the three optional hooks are handed to attach() as
\* they are, inherited defaults included, instead of None.
construct_attach_all ==
    /\ phase = "new"
    /\ \E trig \in Triggers, freq \in Frequencies, tmin \in MinFrequencies,
          factor \in ScalingFactors, subclass \in OverrideChoices :
        /\ trigger' = trig
        /\ trigger_frequency' = freq
        /\ trigger_min' = tmin
        /\ trigger_scaling_factor' = factor
        /\ overridden' = subclass
        /\ IF RatLt(Zero, factor)
             THEN /\ phase' = "constructed"
                  /\ attached' = {"forward_fn"} \cup OptionalHooks
             ELSE /\ phase' = "failed"
                  /\ attached' = {}
    /\ UNCHANGED <<queue_size, step_counter, step_lock, should_exit, is_running,
                   pc, logs, dynamic_unit, sleep_duration, drained, last_call, outcome>>

\* __init__: the fields are stored, the scaling factor is asserted positive,
\* then the queue, the counter and the lock are created and the hooks attached:
\* forward_fn always, each optional hook only if is_overridden, else None.
\* `attached` holds the keywords of attach() that received a function.
construct ==
    /\ phase = "new"
    /\ \E trig \in Triggers, freq \in Frequencies, tmin \in MinFrequencies,
          factor \in ScalingFactors, subclass \in OverrideChoices :
        /\ trigger' = trig
        /\ trigger_frequency' = freq
        /\ trigger_min' = tmin
        /\ trigger_scaling_factor' = factor
        /\ overridden' = subclass
        /\ IF RatLt(Zero, factor)
             THEN /\ phase' = "constructed"
                  /\ attached' = {"forward_fn"}
                                   \cup {h \in OptionalHooks : is_overridden(h, subclass)}
             ELSE /\ phase' = "failed"
                  /\ attached' = {}
    /\ UNCHANGED <<queue_size, step_counter, step_lock, should_exit, is_running,
                   pc, logs, dynamic_unit, sleep_duration, drained, last_call, outcome>>

\* ------------------------------------------------------------- step control
increment_step ==
    /\ phase = "constructed"
    /\ IF supports_with(step_lock_type)
         THEN /\ step_lock = "free"
              /\ step_counter' = IF trigger = "steps" THEN step_counter + 1
                                                      ELSE step_counter
              /\ last_call' = [op |-> "increment_step", arg |-> 0, result |-> "returned"]
         ELSE /\ step_counter' = step_counter
              /\ last_call' = [op |-> "increment_step", arg |-> 0, result |-> "TypeError"]
    /\ UNCHANGED <<phase, config, attached, overridden, queue_size, step_lock, should_exit,
                   is_running, pc, logs, dynamic_unit, sleep_duration, drained, outcome>>

set_step ==
    /\ phase = "constructed"
    /\ \E step \in StepValues :
        IF supports_with(step_lock_type)
          THEN /\ step_lock = "free"
               /\ step_counter' = IF trigger = "steps" THEN step ELSE step_counter
               /\ last_call' = [op |-> "set_step", arg |-> step, result |-> "returned"]
          ELSE /\ step_counter' = step_counter
               /\ last_call' = [op |-> "set_step", arg |-> step, result |-> "TypeError"]
    /\ UNCHANGED <<phase, config, attached, overridden, queue_size, step_lock, should_exit,
                   is_running, pc, logs, dynamic_unit, sleep_duration, drained, outcome>>

\* ------------------------------------------------------------- admission path
\* OrganicScoringBase._on_organic_entry: the body of the abstract method
\* raises NotImplementedError and leaves the queue alone.
on_organic_entry ==
    /\ phase = "constructed"
    /\ last_call' = [op |-> "_on_organic_entry", arg |-> 0,
                     result |-> "NotImplementedError"]
    /\ UNCHANGED <<phase, config, attached, overridden, queue_size, step_counter,
                   step_lock, should_exit, is_running, pc, logs, dynamic_unit,
                   sleep_duration, drained, outcome>>

\* The concrete subclass's override of _on_organic_entry, called by the axon
\* as the registered forward_fn: it appends the entry to the organic queue.
organic_queue_add ==
    /\ phase = "constructed"
    /\ "forward_fn" \in attached
    /\ queue_size < MaxQueue
    /\ queue_size' = queue_size + 1
    /\ UNCHANGED <<phase, config, attached, overridden, step_counter, step_lock, should_exit,
                   is_running, pc, logs, dynamic_unit, sleep_duration, drained,
                   last_call, outcome>>

\* ------------------------------------------------------------- start / stop
\* start(): launches start_loop as the scheduler's one long-running task.
start ==
    /\ phase = "constructed"
    /\ pc = "notstarted"
    /\ pc' = "top"
    /\ is_running' = TRUE
    /\ UNCHANGED <<phase, config, attached, overridden, queue_size, step_counter, step_lock,
                   should_exit, logs, dynamic_unit, sleep_duration, drained,
                   last_call, outcome>>

\* stop(): requests termination by setting the flag; it does not wait.
stop ==
    /\ phase = "constructed"
    /\ should_exit' = TRUE
    /\ UNCHANGED <<phase, config, attached, overridden, queue_size, step_counter, step_lock,
                   is_running, pc, logs, dynamic_unit, sleep_duration, drained,
                   last_call, outcome>>

\* The loop's completion signal: once start_loop has returned, is_running falls.
loop_completed ==
    /\ pc = "exited"
    /\ is_running
    /\ is_running' = FALSE
    /\ UNCHANGED <<phase, config, attached, overridden, queue_size, step_counter, step_lock,
                   should_exit, pc, logs, dynamic_unit, sleep_duration, drained,
                   last_call, outcome>>

\* ------------------------------------------------------------- start_loop
\* `while not self._should_exit:` and `if self._trigger == "steps":`
loop_top ==
    /\ pc = "top"
    /\ pc' = IF should_exit THEN "exited"
             ELSE IF trigger = "steps" THEN "gate" ELSE "sampling"
    /\ UNCHANGED <<phase, config, attached, overridden, queue_size, step_counter, step_lock,
                   should_exit, is_running, logs, dynamic_unit, sleep_duration,
                   drained, last_call, outcome>>

\* Mutant of gate_check: the gate compares with the annealed rate
\* sample_rate_dynamic() instead of the configured trigger_frequency.
gate_check_dynamic ==
    /\ pc = "gate"
    /\ IF RatLt(FromInt(step_counter),
                sample_rate_dynamic(trigger, trigger_frequency, trigger_min,
                                    trigger_scaling_factor, queue_size))
         THEN pc' = "gate_sleep"
         ELSE pc' = "sampling"
    /\ UNCHANGED <<phase, config, attached, overridden, queue_size, step_counter, step_lock,
                   should_exit, is_running, logs, dynamic_unit, sleep_duration,
                   drained, last_call, outcome>>

\* `while self._step_counter < self._trigger_frequency: await asyncio.sleep(0.1)`
\* (the 0.1 s suspension is pc = "gate_sleep")
gate_check ==
    /\ pc = "gate"
    /\ IF RatLt(FromInt(step_counter), trigger_frequency)
         THEN pc' = "gate_sleep"
         ELSE pc' = "sampling"
    /\ UNCHANGED <<phase, config, attached, overridden, queue_size, step_counter, step_lock,
                   should_exit, is_running, logs, dynamic_unit, sleep_duration,
                   drained, last_call, outcome>>

gate_wake ==
    /\ pc = "gate_sleep"
    /\ pc' = "gate"
    /\ UNCHANGED <<phase, config, attached, overridden, queue_size, step_counter, step_lock,
                   should_exit, is_running, logs, dynamic_unit, sleep_duration,
                   drained, last_call, outcome>>

\* `logs = await self.forward()` returns: forward (abstract) may take one entry
\* from the queue and reports its elapsed time, or leaves the key out.
forward_returns ==
    /\ pc = "sampling"
    /\ \E taken \in {0, 1}, l \in {NoLogs} \cup
              {[has_key |-> TRUE, total_elapsed_time |-> e] : e \in ElapsedValues} :
        /\ taken <= queue_size
        /\ queue_size' = queue_size - taken
        /\ logs' = l
    /\ pc' = "wait_enter"
    /\ outcome' = "returned"
    /\ UNCHANGED <<phase, config, attached, overridden, step_counter, step_lock, should_exit,
                   is_running, dynamic_unit, sleep_duration, drained, last_call>>

\* forward() raises an Exception: `except Exception` logs it and awaits asyncio.sleep(1),
\* the suspension pc = "backoff".
forward_raises ==
    /\ pc = "sampling"
    /\ \E taken \in {0, 1} :
        /\ taken <= queue_size
        /\ queue_size' = queue_size - taken
    /\ pc' = "backoff"
    /\ outcome' = "raised"
    /\ UNCHANGED <<phase, config, attached, overridden, step_counter, step_lock, should_exit,
                   is_running, logs, dynamic_unit, sleep_duration, drained, last_call>>

\* forward() raises something that is not an Exception (asyncio.CancelledError,
\* KeyboardInterrupt, SystemExit, ...): `except Exception` does not catch it,
\* it propagates out of start_loop and the coroutine ends there.
forward_propagates ==
    /\ pc = "sampling"
    /\ \E taken \in {0, 1} :
        /\ taken <= queue_size
        /\ queue_size' = queue_size - taken
    /\ pc' = "exited"
    /\ outcome' = "propagated"
    /\ UNCHANGED <<phase, config, attached, overridden, step_counter, step_lock, should_exit,
                   is_running, logs, dynamic_unit, sleep_duration, drained, last_call>>

backoff_done ==
    /\ pc = "backoff"
    /\ pc' = "top"
    /\ UNCHANGED <<phase, config, attached, overridden, queue_size, step_counter, step_lock,
                   should_exit, is_running, logs, dynamic_unit, sleep_duration,
                   drained, last_call, outcome>>

\* ------------------------------------------------------------- wait_until_next
\* Mutant of wait_until_next: the remaining time is not clamped at 0.
wait_until_next_unclamped ==
    /\ pc = "wait_enter"
    /\ IF trigger_scaling_factor = Zero
         THEN /\ pc' = "backoff"
              /\ UNCHANGED <<dynamic_unit, drained, sleep_duration>>
         ELSE \E unit \in {sample_rate_dynamic(trigger, trigger_frequency, trigger_min,
                                                 trigger_scaling_factor, queue_size)} :
                  /\ dynamic_unit' = unit
                  /\ drained' = 0
                  /\ IF trigger = "seconds"
                       THEN /\ sleep_duration' = RatSub(unit, total_elapsed_time(logs))
                            /\ pc' = "wait_sleep"
                       ELSE /\ sleep_duration' = sleep_duration
                            /\ pc' = "wait_check"
    /\ UNCHANGED <<phase, config, attached, overridden, queue_size, step_counter, step_lock,
                   should_exit, is_running, logs, last_call, outcome>>

\* Entry: dynamic_unit = self.sample_rate_dynamic(); "seconds" computes the
\* sleep and suspends, "steps" enters `while True`.  A zero scaling factor
\* makes the division raise inside the loop's try block.
wait_until_next ==
    /\ pc = "wait_enter"
    /\ IF trigger_scaling_factor = Zero
         THEN /\ pc' = "backoff"
              /\ UNCHANGED <<dynamic_unit, drained, sleep_duration>>
         ELSE \E unit \in {sample_rate_dynamic(trigger, trigger_frequency, trigger_min,
                                                 trigger_scaling_factor, queue_size)} :
                  /\ dynamic_unit' = unit
                  /\ drained' = 0
                  /\ IF trigger = "seconds"
                       THEN /\ sleep_duration' =
                                   RatMax(RatSub(unit, total_elapsed_time(logs)), Zero)
                            /\ pc' = "wait_sleep"
                       ELSE /\ sleep_duration' = sleep_duration
                            /\ pc' = "wait_check"
    /\ UNCHANGED <<phase, config, attached, overridden, queue_size, step_counter, step_lock,
                   should_exit, is_running, logs, last_call, outcome>>

\* Mutant of wait_sleep_done: after the sleep forward() is invoked again at
\* once, without going through the loop's test.
wait_sleep_resample ==
    /\ pc = "wait_sleep"
    /\ pc' = "sampling"
    /\ UNCHANGED <<phase, config, attached, overridden, queue_size, step_counter, step_lock,
                   should_exit, is_running, logs, dynamic_unit, sleep_duration,
                   drained, last_call, outcome>>

\* "seconds": the sleep elapses, wait_until_next returns, the loop iterates.
wait_sleep_done ==
    /\ pc = "wait_sleep"
    /\ pc' = "top"
    /\ UNCHANGED <<phase, config, attached, overridden, queue_size, step_counter, step_lock,
                   should_exit, is_running, logs, dynamic_unit, sleep_duration,
                   drained, last_call, outcome>>

\* Mutant of wait_check: the step lock is acquired for the comparison and
\* kept, also over the one-second sleep.
wait_check_locked ==
    /\ pc = "wait_check"
    /\ step_lock' = "start_loop"
    /\ IF RatLeq(dynamic_unit, FromInt(step_counter))
         THEN pc' = "wait_subtract"
         ELSE pc' = "wait_poll"
    /\ UNCHANGED <<phase, config, attached, overridden, queue_size, step_counter,
                   should_exit, is_running, logs, dynamic_unit, sleep_duration,
                   drained, last_call, outcome>>

\* Mutant of wait_check: the comparison is dropped, the subtraction always runs.
wait_check_unguarded ==
    /\ pc = "wait_check"
    /\ pc' = "wait_subtract"
    /\ UNCHANGED <<phase, config, attached, overridden, queue_size, step_counter, step_lock,
                   should_exit, is_running, logs, dynamic_unit, sleep_duration,
                   drained, last_call, outcome>>

\* "steps": `if self._step_counter >= dynamic_unit:` ... `else: await asyncio.sleep(1)`
wait_check ==
    /\ pc = "wait_check"
    /\ IF RatLeq(dynamic_unit, FromInt(step_counter))
         THEN pc' = "wait_subtract"
         ELSE pc' = "wait_poll"
    /\ UNCHANGED <<phase, config, attached, overridden, queue_size, step_counter, step_lock,
                   should_exit, is_running, logs, dynamic_unit, sleep_duration,
                   drained, last_call, outcome>>

\* `self._step_counter -= dynamic_unit`, then `while True` checks again: the
\* loop has no break and no return.
wait_subtract ==
    /\ pc = "wait_subtract"
    /\ step_counter' = step_counter - int(dynamic_unit)
    /\ drained' = IF drained < MaxDrain THEN drained + 1 ELSE drained
    /\ pc' = "wait_check"
    /\ UNCHANGED <<phase, config, attached, overridden, queue_size, step_lock, should_exit,
                   is_running, logs, dynamic_unit, sleep_duration, last_call, outcome>>

wait_poll_done ==
    /\ pc = "wait_poll"
    /\ pc' = "wait_check"
    /\ UNCHANGED <<phase, config, attached, overridden, queue_size, step_counter, step_lock,
                   should_exit, is_running, logs, dynamic_unit, sleep_duration,
                   drained, last_call, outcome>>

\* ------------------------------------------------------------- specifications
\* The start_loop coroutine: the steps the event loop schedules.
start_loop ==
    \/ loop_top
    \/ gate_check
    \/ gate_wake
    \/ forward_returns
    \/ forward_raises
    \/ forward_propagates
    \/ backoff_done
    \/ wait_until_next
    \/ wait_sleep_done
    \/ wait_check
    \/ wait_subtract
    \/ wait_poll_done

Next ==
    \/ construct
    \/ increment_step
    \/ set_step
    \/ on_organic_entry
    \/ organic_queue_add
    \/ start
    \/ stop
    \/ loop_completed
    \/ start_loop

Spec == Init /\ [][Next]_vars

\* The event loop resumes the coroutine whenever its sleep has elapsed; the
\* Sampling Callback is assumed to finish (by returning or by raising).
FairSpec == Spec /\ WF_vars(start_loop) /\ WF_vars(loop_completed)

\* ------------------------------------------------------------- rate specification
\* A constructed scheduler (frequency > 0, scaling factor > 0, loop not
\* started) for every configuration and queue size of the rate bounds; sample_rate_dynamic() is
\* called on it and its return value kept in dynamic_unit.
RateFrequencies == {Rat(n, 2) : n \in 1..(2 * MaxRateFreq)}
RateMinFrequencies == {Rat(n, 2) : n \in (-2)..(2 * MaxRateMin)}
RateScalingFactors == {FromInt(n) : n \in 1..MaxRateScale}

RateInit ==
    /\ phase = "constructed"
    /\ trigger \in Triggers
    /\ trigger_frequency \in RateFrequencies
    /\ trigger_min \in RateMinFrequencies
    /\ trigger_scaling_factor \in RateScalingFactors
    /\ attached = {"forward_fn"}
    /\ overridden = {}
    /\ queue_size \in 0..MaxRateQueue
    /\ step_counter = 0
    /\ step_lock = "free"
    /\ should_exit = FALSE
    /\ is_running = FALSE
    /\ pc = "notstarted"
    /\ logs = NoLogs
    /\ dynamic_unit = Zero
    /\ sleep_duration = Zero
    /\ drained = 0
    /\ outcome = "none"
    /\ last_call = NoCall

rate_probe ==
    /\ phase = "constructed"
    /\ last_call = NoCall
    /\ dynamic_unit' = sample_rate_dynamic(trigger, trigger_frequency, trigger_min,
                                           trigger_scaling_factor, queue_size)
    /\ last_call' = [op |-> "sample_rate_dynamic", arg |-> queue_size,
                     result |-> "returned"]
    /\ UNCHANGED <<phase, config, attached, overridden, queue_size, step_counter, step_lock,
                   should_exit, is_running, pc, logs, sleep_duration, drained,
                   outcome>>

RateNext == rate_probe

RateSpec == RateInit /\ [][RateNext]_vars

\* ============================================================= claims
Started == pc # "notstarted"
Probed == last_call.op = "sample_rate_dynamic"
\* The "steps" gate of start_loop lets the loop through.
GateOpen == trigger_frequency[1] <= step_counter * trigger_frequency[2]

\* C1: in "steps" mode step_counter is never negative, whatever increment_step,
\* set_step (any integer, negative ones included) and the loop's subtraction
\* in wait_until_next have done.
C1_StepCounterNonNegative == trigger = "steps" => step_counter >= 0

\* C1 witness: a "steps" scheduler on which set_step(-1) has been called and
\* whose loop has subtracted from the counter.
C1_Witness ==
    /\ trigger = "steps"
    /\ last_call.op = "set_step"
    /\ last_call.arg < 0
    /\ drained > 0

\* C2: fault tolerance.  When forward() raises, whatever it raises, and
\* should_exit is not set the loop does not end: neither the failing
\* forward() nor the backoff leads to the loop's exit, the top of the loop exits only on should_exit, and from
\* the backoff the loop reaches forward() again ("seconds": with no gate,
\* "steps": once the step gate is satisfied) unless stop() intervenes.
C2_FaultTolerance ==
    /\ [][(pc \in {"sampling", "backoff"}) => pc' # "exited"]_vars
    /\ [][(pc = "top" /\ ~should_exit) => pc' # "exited"]_vars
    /\ [][(pc = "top" /\ ~should_exit /\ trigger = "seconds" /\ pc' # pc)
            => pc' = "sampling"]_vars
    /\ []((pc = "backoff" /\ outcome = "raised")
            => <>(\/ pc = "sampling"
                  \/ should_exit
                  \/ (trigger = "steps" /\ ~GateOpen)))

\* C2 witness: the loop has ended on a raise of forward() that the handler
\* did not catch, with should_exit not set.
C2_Witness == pc = "exited" /\ outcome = "propagated" /\ ~should_exit

\* C3: shutdown liveness.  Once stop() has set should_exit while the loop is
\* running, the loop eventually exits and is_running becomes false.
C3_ShutdownLiveness ==
    [](should_exit /\ Started => <>(pc = "exited" /\ ~is_running))

\* C3 witness: a "steps" loop inside wait_until_next with should_exit set.
C3_Witness ==
    /\ should_exit
    /\ trigger = "steps"
    /\ pc \in {"wait_check", "wait_subtract", "wait_poll"}

\* C4: stop() during a cycle does not interrupt it: from Sampling or Waiting
\* the loop never jumps to its exit (unless forward() itself ends it with an
\* uncaught raise), forward() and the wait_until_next after it complete, then
\* the loop exits, and no further forward() starts.
MidFlight ==
    {"sampling", "wait_enter", "wait_sleep", "wait_check", "wait_subtract", "wait_poll"}

C4_CycleCompletesThenExit ==
    /\ [][(pc \in MidFlight /\ outcome' # "propagated") => pc' # "exited"]_vars
    /\ [][(should_exit /\ pc \in (MidFlight \ {"sampling"}) \cup {"backoff", "top"})
            => pc' # "sampling"]_vars
    /\ []((should_exit /\ pc \in MidFlight) => <>(pc = "exited"))

\* C4 witness: stop() arrived while forward() was in flight in "steps" mode,
\* and the loop is now polling in wait_until_next.
C4_Witness ==
    /\ should_exit
    /\ trigger = "steps"
    /\ outcome = "returned"
    /\ pc = "wait_poll"

\* C5: on a "seconds" scheduler increment_step() and set_step(value) are
\* no-ops: each call returns normally and changes nothing of the scheduler,
\* so step_counter stays at its initial 0.
C5_SecondsStepCallsAreNoOps ==
    /\ [](trigger = "seconds" => step_counter = 0)
    /\ [][(trigger = "seconds" /\ (increment_step \/ set_step))
            => /\ last_call'.result = "returned"
               /\ UNCHANGED <<phase, config, attached, overridden, queue_size, step_counter,
                              step_lock, should_exit, is_running, pc, logs,
                              dynamic_unit, sleep_duration, drained, outcome>>]_vars

\* C5 witness: a step call has been made on a "seconds" scheduler.
C5_Witness ==
    /\ trigger = "seconds"
    /\ last_call.op \in {"increment_step", "set_step"}
    /\ step_counter = 0

\* C6: on a "steps" scheduler increment_step() returns normally and raises
\* step_counter by exactly 1, set_step(v) returns normally and leaves
\* step_counter equal to v; the step mutex is taken and released around the
\* update, so it is free again afterwards.
C6_StepCallsUpdateCounter ==
    /\ [][(trigger = "steps" /\ increment_step)
            => /\ last_call'.result = "returned"
               /\ step_counter' = step_counter + 1
               /\ step_lock' = "free"]_vars
    /\ [][(trigger = "steps" /\ set_step)
            => /\ last_call'.result = "returned"
               /\ step_counter' = last_call'.arg
               /\ step_lock' = "free"]_vars

\* C6 witness: increment_step() has been called on a "steps" scheduler.
C6_Witness ==
    /\ trigger = "steps"
    /\ last_call.op = "increment_step"

\* C10: a scheduler whose scaling factor is 0 or negative fails in its
\* constructor: no hook has been attached, the loop was never started,
\* forward() never ran, and nothing of the scheduler has changed.
C10_ConstructionRejectsScalingFactor ==
    (phase # "new" /\ trigger_scaling_factor[1] <= 0)
        => /\ phase = "failed"
           /\ attached = {}
           /\ pc = "notstarted"
           /\ ~is_running
           /\ outcome = "none"
           /\ step_counter = 0
           /\ queue_size = 0
           /\ last_call = NoCall

\* C10 witness: construction with scaling factor 0 has failed.
C10_Witness == phase = "failed" /\ trigger_scaling_factor = Zero

\* C11: hook installation at construction.  Each of verify_fn, blacklist_fn
\* and priority_fn is registered with the axon if and only if the subclass
\* overrides it (None is passed otherwise), and forward_fn (_on_organic_entry)
\* is registered in every case; a subclass overriding none of the three
\* registers forward_fn alone.
C11_HooksAttachedIffOverridden ==
    phase = "constructed" =>
        /\ "forward_fn" \in attached
        /\ \A h \in OptionalHooks : h \in attached <=> h \in overridden
        /\ attached \subseteq {"forward_fn"} \cup OptionalHooks
        /\ overridden = {} => attached = {"forward_fn"}

\* C11 witness: a constructed scheduler whose subclass overrides verify_fn
\* only: verify_fn and forward_fn are registered, the other two are not.
C11_Witness ==
    /\ phase = "constructed"
    /\ overridden = {"verify_fn"}
    /\ attached = {"forward_fn", "verify_fn"}

\* C12: "steps" waiting terminates.  Once wait_until_next has seen
\* step_counter >= dynamic_unit it subtracts dynamic_unit and returns: the
\* step after the subtraction is the top of the loop, and from the
\* subtraction the loop does get back to its top.
C12_StepsWaitReturns ==
    /\ [][(pc = "wait_subtract" /\ pc' # pc) => pc' = "top"]_vars
    /\ []((trigger = "steps" /\ pc = "wait_subtract") => <>(pc = "top"))

\* C12 witness: a "steps" wait_until_next that has subtracted and is
\* evaluating its condition again.
C12_Witness ==
    /\ trigger = "steps"
    /\ pc = "wait_check"
    /\ drained > 0

\* C13: no double decrement.  Within one cycle (one forward() followed by one
\* wait_until_next) the loop subtracts dynamic_unit from step_counter at most
\* once.
C13_SingleDecrementPerCycle == trigger = "steps" => drained <= 1

\* C13 witness: a second subtraction inside the same wait_until_next.
C13_Witness ==
    /\ trigger = "steps"
    /\ outcome = "returned"
    /\ drained = 2

\* C14: the step mutex serialises the loop's read-and-decrement with the
\* external writers: the loop holds the lock from its comparison to its
\* subtraction, so whenever it is about to subtract the lock is its own.
C14_LoopDecrementUnderLock == pc = "wait_subtract" => step_lock = "start_loop"

\* C14 witness: the loop has compared and is about to subtract while an
\* external step call has been made.
C14_Witness ==
    /\ pc = "wait_subtract"
    /\ last_call.op \in {"increment_step", "set_step"}
    /\ step_lock = "free"

\* The reference value max(frequency - size / factor, min) as a fraction
\* RefNum / RefDen (RefDen > 0), worked out in integers from the configuration.
BacklogNum ==
    trigger_frequency[1] * trigger_scaling_factor[1]
        - queue_size * trigger_scaling_factor[2] * trigger_frequency[2]
BacklogDen == trigger_frequency[2] * trigger_scaling_factor[1]
FloorReached == BacklogNum * trigger_min[2] <= trigger_min[1] * BacklogDen
RefNum == IF FloorReached THEN trigger_min[1] ELSE BacklogNum
RefDen == IF FloorReached THEN trigger_min[2] ELSE BacklogDen

\* The loop positions of the three phases and its suspension points.
Idle == {"top", "gate", "gate_sleep"}
Waiting == {"wait_enter", "wait_sleep", "wait_check", "wait_subtract", "wait_poll"}
Suspended == {"gate_sleep", "wait_sleep", "wait_poll", "backoff"}
\* A configuration of the documented domain: frequency > 0, minimum >= 0.
InDomain == trigger_frequency[1] > 0 /\ trigger_min[1] >= 0

\* C15: the "steps" entry gate.  forward() starts in "steps" mode only from
\* the gate and only when step_counter, as the gate read it, is at least the
\* configured trigger_frequency, whatever the queue size; in "seconds" mode
\* there is no gate: forward() starts straight from the top of the loop.
C15_StepsGateOnBaseFrequency ==
    /\ [][(trigger = "steps" /\ pc # "sampling" /\ pc' = "sampling")
            => (pc = "gate" /\ GateOpen)]_vars
    /\ [][(trigger = "seconds" /\ pc # "sampling" /\ pc' = "sampling")
            => pc = "top"]_vars
    /\ [][(trigger = "seconds" /\ pc = "top" /\ ~should_exit /\ pc' # pc)
            => pc' = "sampling"]_vars

\* C15 witness: forward() running in "steps" mode with a non-empty queue.
C15_Witness ==
    /\ trigger = "steps"
    /\ pc = "sampling"
    /\ queue_size > 0
    /\ GateOpen

\* C16: a loop that is Idle when should_exit is set (a "steps" loop polling
\* at its gate included) starts no forward() any more and exits, for every
\* configuration of the documented domain.
C16_IdleObservesStop ==
    /\ [][(InDomain /\ should_exit /\ pc \in Idle) => pc' # "sampling"]_vars
    /\ []((InDomain /\ should_exit /\ pc \in Idle) => <>(pc = "exited"))

\* C16 witness: a "steps" loop asleep at its closed gate with should_exit set.
C16_Witness ==
    /\ InDomain
    /\ should_exit
    /\ trigger = "steps"
    /\ pc = "gate_sleep"
    /\ ~GateOpen

\* C17: no busy spin.  With minimum >= 0 and scaling factor > 0, every pass
\* of wait_until_next through its comparison reaches a sleep or returns.
C17_WaitingYields ==
    []((trigger_min[1] >= 0 /\ pc = "wait_check")
         => <>(pc \in {"wait_poll", "wait_sleep", "top"}))

\* C17 witness: a "steps" wait_until_next with dynamic_unit truncated to 0
\* that has subtracted once and is about to subtract again.
C17_Witness ==
    /\ trigger = "steps"
    /\ trigger_min[1] >= 0
    /\ dynamic_unit = Zero
    /\ pc = "wait_subtract"
    /\ drained >= 1

\* total_elapsed_time of the telemetry as a fraction, 0 without the key.
ElapsedNum == IF logs.has_key THEN logs.total_elapsed_time[1] ELSE 0
ElapsedDen == IF logs.has_key THEN logs.total_elapsed_time[2] ELSE 1
\* dynamic_unit - total_elapsed_time as a fraction RemainNum / RemainDen.
RemainNum == dynamic_unit[1] * ElapsedDen - ElapsedNum * dynamic_unit[2]
RemainDen == dynamic_unit[2] * ElapsedDen

\* C18: "seconds" waiting.  On entry dynamic_unit is the rate of the queue
\* size at that moment; the sleep requested is max(dynamic_unit -
\* total_elapsed_time, 0) with total_elapsed_time 0 when the key is absent,
\* never negative; step_counter is not touched.
C18_SecondsSleep ==
    /\ [][(trigger = "seconds" /\ pc = "wait_enter" /\ pc' = "wait_sleep")
            => /\ dynamic_unit'[1] * RefDen = RefNum * dynamic_unit'[2]
               /\ step_counter' = step_counter]_vars
    /\ []((trigger = "seconds" /\ pc = "wait_sleep")
            => /\ sleep_duration[1] >= 0
               /\ RemainNum >= 0 => sleep_duration[1] * RemainDen
                                        = RemainNum * sleep_duration[2]
               /\ RemainNum < 0 => sleep_duration[1] = 0
               /\ step_counter = 0)

\* C18 witness: a "seconds" loop asleep in wait_until_next after a forward()
\* that took longer than dynamic_unit, the sleep clamped to 0.
C18_Witness ==
    /\ trigger = "seconds"
    /\ pc = "wait_sleep"
    /\ logs.has_key
    /\ RemainNum < 0
    /\ sleep_duration = Zero

\* C19: forward() invocations are strictly ordered.  forward() starts only
\* from Idle, so never while one is running or the loop is Waiting;
\* wait_until_next starts only after forward() returned; a running forward()
\* is followed by wait_until_next, the backoff or (uncaught raise) the end
\* of the loop; and the next iteration
\* starts only after Waiting or the backoff, so each iteration has one
\* forward().
C19_ForwardStrictlyOrdered ==
    /\ [][(pc' = "sampling" /\ pc # "sampling") => pc \in {"top", "gate"}]_vars
    /\ [][(pc = "sampling" /\ pc' # pc)
            => \/ pc' \in {"wait_enter", "backoff"}
               \/ (pc' = "exited" /\ outcome' = "propagated")]_vars
    /\ [][(pc' = "wait_enter" /\ pc # "wait_enter")
            => (pc = "sampling" /\ outcome' = "returned")]_vars
    /\ [][(pc' = "top" /\ pc # "top")
            => pc \in {"notstarted", "backoff"} \cup (Waiting \ {"wait_enter"})]_vars

\* C19 witness: forward() running in an iteration after one whose forward()
\* returned and whose waiting has ended.
C19_Witness ==
    /\ pc = "sampling"
    /\ outcome = "returned"
    /\ trigger = "seconds"

\* C20: no lock across a suspension point.  Whenever the loop is suspended
\* (gate poll, waiting sleep, one-second backoff) the step lock is free.
C20_LockFreeWhileSuspended == pc \in Suspended => step_lock = "free"

\* C20 witness: the loop is suspended at the gate and set_step has been
\* called meanwhile.
C20_Witness ==
    /\ pc = "gate_sleep"
    /\ last_call.op = "set_step"
    /\ step_lock = "free"

\* ------------------------------------------------------------- rate claims
\* C21: an iteration whose forward() raises, whatever it raises, skips
\* Waiting and leaves step_counter alone: from the failing forward() the loop
\* goes to the one-second backoff, not into wait_until_next, and from the
\* backoff to the top of the loop, with step_counter, dynamic_unit and the
\* subtraction count unchanged on the way; in "steps" mode the gate is
\* therefore still open during the backoff and the retry needs no new steps.
C21_AnyRaiseSkipsWaiting ==
    /\ [][(pc = "sampling" /\ pc' # pc /\ outcome' \in {"raised", "propagated"})
            => /\ pc' = "backoff"
               /\ UNCHANGED <<step_counter, dynamic_unit, drained, sleep_duration>>]_vars
    /\ [][(pc = "backoff" /\ pc' # pc)
            => /\ pc' = "top"
               /\ UNCHANGED <<step_counter, dynamic_unit, drained, sleep_duration>>]_vars
    /\ [][(pc' \in Waiting /\ pc \notin Waiting) => outcome' = "returned"]_vars
    /\ []((trigger = "steps" /\ pc = "backoff") => GateOpen)

\* C21 witness: a "steps" loop that ended on a raise of forward() the handler
\* did not catch: no backoff, no return to the top; nothing was subtracted.
C21_Witness ==
    /\ trigger = "steps"
    /\ pc = "exited"
    /\ outcome = "propagated"
    /\ GateOpen
    /\ drained = 0

\* t is the fraction n/d truncated toward zero.
IsTruncationOf(t, n, d) ==
    /\ t * n >= 0
    /\ Abs(t) * d <= Abs(n)
    /\ Abs(n) < (Abs(t) + 1) * d

Example == trigger_frequency = FromInt(10) /\ trigger_scaling_factor = FromInt(5)
              /\ trigger_min = FromInt(2)

\* C7 as stated: for every configuration and queue size, in both modes, the
\* value of sample_rate_dynamic() is at least the minimum frequency.
C7_RateAtLeastMinimum ==
    Probed => dynamic_unit[1] * trigger_min[2] >= trigger_min[1] * dynamic_unit[2]

\* C7 amended: in "seconds" mode the value is at least the minimum frequency;
\* in "steps" mode it is an integer at least the minimum frequency truncated
\* toward zero, hence above minimum - 1 and at least the minimum whenever the
\* minimum is an integer.
C7_RateAtLeastTruncatedMinimum ==
    Probed =>
        /\ trigger = "seconds"
             => dynamic_unit[1] * trigger_min[2] >= trigger_min[1] * dynamic_unit[2]
        /\ trigger = "steps"
             => /\ dynamic_unit[2] = 1
                /\ \E t \in (-1)..MaxRateMin :
                      /\ IsTruncationOf(t, trigger_min[1], trigger_min[2])
                      /\ dynamic_unit[1] >= t
                /\ (dynamic_unit[1] + 1) * trigger_min[2] > trigger_min[1]
                /\ trigger_min[2] = 1 => dynamic_unit[1] >= trigger_min[1]

\* C7 witness: a "steps" scheduler with a fractional minimum whose rate has
\* been computed and sits on the truncated floor, below the minimum.
C7_Witness ==
    /\ Probed
    /\ trigger = "steps"
    /\ trigger_min[2] = 2
    /\ dynamic_unit[1] * trigger_min[2] < trigger_min[1]

\* C8: for a fixed configuration sample_rate_dynamic() is non-increasing in
\* the queue size: the value computed at the current size is at most the
\* value at every smaller size, in both modes.
C8_RateNonIncreasing ==
    Probed =>
        \A q \in 0..queue_size :
            \E smaller \in {sample_rate_dynamic(trigger, trigger_frequency, trigger_min,
                                                trigger_scaling_factor, q)} :
                dynamic_unit[1] * smaller[2] <= smaller[1] * dynamic_unit[2]

\* C8 witness: a rate computed at a non-empty queue that is strictly below the
\* rate of the empty queue.
C8_Witness ==
    /\ Probed
    /\ queue_size > 0
    /\ trigger = "steps"
    /\ dynamic_unit[1] * trigger_frequency[2] < trigger_frequency[1] - trigger_frequency[2]

\* C9: sample_rate_dynamic() equals max(frequency - size / factor, min), as
\* is in "seconds" mode and truncated to an integer in "steps" mode; with
\* frequency 10, factor 5, minimum 2 it is 10, 8 and 2 at sizes 0, 10 and
\* 40; with minimum > frequency it is the minimum (truncated in "steps"
\* mode) at every size.
C9_RateEqualsReference ==
    Probed =>
        /\ trigger = "seconds" => dynamic_unit[1] * RefDen = RefNum * dynamic_unit[2]
        /\ trigger = "steps"
             => /\ dynamic_unit[2] = 1
                /\ IsTruncationOf(dynamic_unit[1], RefNum, RefDen)
        /\ (Example /\ queue_size = 0) => dynamic_unit = FromInt(10)
        /\ (Example /\ queue_size = 10) => dynamic_unit = FromInt(8)
        /\ (Example /\ queue_size = 40) => dynamic_unit = FromInt(2)
        /\ trigger_frequency[1] * trigger_min[2] < trigger_min[1] * trigger_frequency[2]
             => /\ trigger = "seconds" => dynamic_unit = trigger_min
                /\ trigger = "steps"
                     => IsTruncationOf(dynamic_unit[1], trigger_min[1], trigger_min[2])

\* C9 witness: the documented example at queue size 10 in "steps" mode.
C9_Witness ==
    /\ Probed
    /\ Example
    /\ trigger = "steps"
    /\ queue_size = 10
    /\ dynamic_unit = FromInt(8)

====
